---- MODULE Spec2Model ----
(***************************************************************************)
(* The PDF task queue of src/pdf_queue_processor.py: request threads       *)
(* submit tasks through add_pdf_task and read them back through            *)
(* get_task_status / wait_for_task; a worker thread drains the queue and   *)
(* drives generate_pdf_for_service_request, which edits the shared Google  *)
(* Docs template in place (src/google_docs_pdf_generator.py).              *)
(***************************************************************************)
EXTENDS Integers, Sequences, FiniteSets, TLC

\* ------------------------------------------------------------- bounds
NumClients == 2     \* request threads calling the module-level API
MaxTasks == 2       \* add_task calls made in one behaviour
NumCodes == 2       \* distinct service requests (tracking codes)
MaxTime == 1        \* seconds the wall clock advances
MaxPolls == 2       \* polls one wait_for_task makes before its timeout
MaxRuns == 4        \* formatting runs in one paragraph

\* ------------------------------------------------- program constants
max_retries == 3

Clients == 1 .. NumClients
Codes == 1 .. NumCodes
Procs == 1 .. NumClients       \* PDFQueueProcessor instances ever constructed
Workers == 1 .. NumClients     \* worker threads ever started

PENDING == "pending"
PROCESSING == "processing"
COMPLETED == "completed"
FAILED == "failed"

None == 0
Orig == 0                      \* the template with its {{placeholders}}
UnknownId == <<0, 0>>          \* a task id add_task never issued

VARIABLES
  queue_processor,  \* module global _queue_processor (None or an instance)
  made,             \* number of PDFQueueProcessor instances constructed
  is_running,       \* [Procs -> BOOLEAN]   self.is_running
  queue,            \* [Procs -> Seq(task)] self.queue
  tasks,            \* [Procs -> [task_id -> task]] self.tasks
  lock,             \* [Procs -> None or the worker holding self._lock]
  objs,             \* the PDFTask objects, in order of construction
  workers,          \* [Workers -> the thread's position and locals]
  clients,          \* [Clients -> the request thread's position and locals]
  now,              \* int(time.time())
  stamp,            \* datetime.now(), as the number of stamps taken
  template,         \* content of the shared Google Docs template
  before,           \* pairs <<a, b>>: add_task of a returned before add_task of b was called
  place,            \* where in the document the paragraph is
  paragraph,        \* the runs of a paragraph handed to a replacement engine
  replacements,     \* the replacement dict, as its items in insertion order
  filled,           \* the runs the engine leaves in the paragraph
  second,           \* the outcome of the engine's second application
  stage,            \* how far the engine has got with the paragraph
  font_files,       \* [Files -> what static/fonts holds under that name]
  registered_fonts, \* font_manager.registered_fonts
  pdfmetrics,       \* the font names registered with ReportLab's pdfmetrics
  resolved,         \* the last call of get_font_for_pdf and what it returned
  pdf_filename      \* [Codes -> service_request.pdf_filename of that request]

queueVars == <<queue_processor, made, is_running, queue, tasks, lock, objs,
               workers, clients, now, stamp, template, before>>
textVars == <<place, paragraph, replacements, filled, second, stage>>
fontVars == <<font_files, registered_fonts, pdfmetrics, resolved>>
appVars == <<pdf_filename>>
offQueue == <<textVars, fontVars, appVars>>
vars == <<queueVars, offQueue>>

\* --------------------------------------------------------------- tasks
\* PDFTask(task_id, service_request, callback): status PENDING, no result,
\* no error, not processed.  calls counts the invocations of the callback;
\* raises tells whether the callable given raises when it is called.
NewPDFTask(id, code, cb, rs, p) ==
  [task_id |-> id, code |-> code, status |-> PENDING, result |-> None,
   error |-> "none", processed_at |-> None, callback |-> cb, raises |-> rs,
   proc |-> p, calls |-> 0]

\* task_id = f"pdf_task_{tracking_code}_{int(time.time())}"
TaskId(code, t) == <<code, t>>

\* pdf_filename = f"request_{tracking_code}.pdf"
PdfFilename(code) == code

\* self.tasks.get(task_id)
Lookup(p, id) == IF id \in DOMAIN tasks[p] THEN tasks[p][id] ELSE None

\* queue.Queue().put: first in, first out
QueuePutMut(q, t) == <<t>> \o q
QueuePut(q, t) == Append(q, t)

\* task.status in [COMPLETED, FAILED]
IsDoneMut(s) == s # PENDING
IsDone(s) == s \in {COMPLETED, FAILED}

\* the fields a reader of a PDFTask looks at
Fields(t) == [status |-> objs[t].status, result |-> objs[t].result,
              error |-> objs[t].error, processed_at |-> objs[t].processed_at]

NoFields == [status |-> "none", result |-> None, error |-> "none",
             processed_at |-> None]

\* what a caller is handed together with task t: the fields as they are at
\* that moment
Given(t) == IF t = None THEN NoFields ELSE Fields(t)

\* a thread that was never started
IdleWorker == [proc |-> None, pc |-> "none", task |-> None, retries |-> 0,
               attempts |-> 0, success |-> FALSE, ph |-> FALSE,
               saved |-> FALSE, err |-> "none",
               invoked |-> <<>>, tier1 |-> "none", cause |-> "none"]

\* a request thread between two calls
IdleClient(role) ==
  [role |-> role, pc |-> "idle", op |-> "none", proc |-> None, obj |-> None,
   id |-> UnknownId, ref |-> None, polls |-> 0, snap |-> NoFields,
   seenStatus |-> "none", seenResult |-> None, seenError |-> "none"]

\* ---------------------------------------------------------------- Init
\* No document is being filled.
TextIdle ==
  /\ place = "none"
  /\ paragraph = <<>>
  /\ replacements = <<>>
  /\ filled = <<>>
  /\ second = <<>>
  /\ stage = "idle"

\* No font is looked at: an empty font directory, nothing registered.
FontIdle ==
  /\ font_files = <<>>
  /\ registered_fonts = {}
  /\ pdfmetrics = {}
  /\ resolved = [called |-> FALSE, requested |-> <<>>, font |-> <<>>]

\* No request has a PDF.
AppIdle == pdf_filename = [k \in Codes |-> None]

OffQueueIdle == TextIdle /\ FontIdle /\ AppIdle

\* Shared part of the initial state: no task, the template untouched.
InitQueue ==
  /\ objs = <<>>
  /\ queue = [p \in Procs |-> <<>>]
  /\ tasks = [p \in Procs |-> <<>>]
  /\ lock = [p \in Procs |-> None]
  /\ now = 0
  /\ stamp = 0
  /\ template = Orig
  /\ before = {}

InitCommon == OffQueueIdle /\ InitQueue

\* The processor as get_queue_processor leaves it after an uncontended first
\* call: one instance, started, its worker waiting on the queue.
InitStarted ==
  /\ queue_processor = 1
  /\ made = 1
  /\ is_running = [p \in Procs |-> p = 1]
  /\ workers = [w \in Workers |->
                  IF w = 1 THEN [IdleWorker EXCEPT !.proc = 1, !.pc = "get"]
                  ELSE IdleWorker]

\* Every request thread submits tasks.
Init ==
  /\ InitCommon
  /\ InitStarted
  /\ clients = [c \in Clients |-> IdleClient("submitter")]

\* The queue at rest, while something else is looked at.
QueueIdle ==
  /\ InitQueue
  /\ InitStarted
  /\ clients = [c \in Clients |-> IdleClient("submitter")]

\* ------------------------------------------------------------- worker
docVars == <<template>>
procVars == <<queue_processor, made, is_running>>

\* while retries <= self.max_retries and not success
LoopCondAgain(me) == me.retries <= max_retries
LoopCondMut(me) == me.retries < max_retries /\ ~me.success
LoopCond(me) == me.retries <= max_retries /\ ~me.success

\* The head of the retry loop: one more attempt, or _process_task returns
\* and the worker is back at self.queue.get.
Resume(me) ==
  IF LoopCond(me)
    THEN [me EXCEPT !.pc = "attempt", !.ph = FALSE, !.saved = FALSE, !.err = "none"]
    ELSE [IdleWorker EXCEPT !.proc = me.proc, !.pc = "get"]

\* the thread is gone: an exception left _process_queue
Dead(me) == [IdleWorker EXCEPT !.proc = me.proc]

\* An exception reaches the handler of the retry loop and nothing catches
\* it there.
RaiseMut(me, e) == Dead(me)

\* except Exception as e: retries += 1; with retries left, time.sleep and
\* the next turn of the loop; otherwise the task fails with str(e)
Raise(me, e) ==
  LET r == [me EXCEPT !.retries = @ + 1] IN
  IF r.retries <= max_retries
    THEN Resume(r)
    ELSE [r EXCEPT !.pc = "set_failed", !.err = e, !.ph = FALSE, !.saved = FALSE]

\* generate_pdf_for_service_request returned None: the worker raises
\* "PDF generation returned None" and the attempt is over; nothing else is
\* called for the task before the next attempt
ReturnedNone(me) == [me EXCEPT !.tier1 = "raised"]

\* except Exception as e: logger.error(...); return False / return None: the
\* exception that ended the generation is logged and dropped
Caught(me, e) == [me EXCEPT !.cause = e]

\* generate_pdf_for_service_request returned the file's name
ReturnedFilename(me) == [me EXCEPT !.tier1 = "ok"]

\* task.callback(task), when a callback was given
InvokeCallback(t) ==
  IF objs[t].callback THEN [objs EXCEPT ![t].calls = @ + 1] ELSE objs

\* try: task.callback(task) / except Exception: logger.error(...): whether
\* the callback returned or raised, the worker goes on after the try
AfterCallbackMut(me, t) ==
  IF objs[t].callback /\ objs[t].raises THEN Raise(me, "callback") ELSE Resume(me)
AfterCallback(me, t) == Resume(me)

\* replaceAllText of every placeholder by the request's values
Forward(tpl, code) == IF tpl = Orig THEN code ELSE tpl

\* replaceAllText of the request's values by the placeholders
Restore(tpl, code) == IF tpl = code THEN Orig ELSE tpl

\* task = self.queue.get(timeout=1), while self.is_running
Dequeue(w) ==
  LET me == workers[w] IN
  /\ me.pc = "get"
  /\ is_running[me.proc]
  /\ queue[me.proc] # <<>>
  /\ queue' = [queue EXCEPT ![me.proc] = Tail(@)]
  /\ workers' = [workers EXCEPT ![w].task = Head(queue[me.proc]), ![w].pc = "mark"]
  /\ UNCHANGED <<offQueue, procVars, docVars, tasks, lock, objs, clients, now, stamp, before>>

\* with self._lock: task.status = PROCESSING ...
MarkProcessing(w) ==
  LET me == workers[w] IN
  /\ me.pc = "mark"
  /\ lock[me.proc] = None
  /\ lock' = [lock EXCEPT ![me.proc] = w]
  /\ objs' = [objs EXCEPT ![me.task].status = PROCESSING]
  /\ workers' = [workers EXCEPT ![w].pc = "stamp"]
  /\ UNCHANGED <<offQueue, procVars, docVars, queue, tasks, clients, now, stamp, before>>

\* ... task.processed_at = datetime.now(); retries = 0; success = False
StampProcessed(w) ==
  LET me == workers[w] IN
  /\ me.pc = "stamp"
  /\ stamp' = stamp + 1
  /\ objs' = [objs EXCEPT ![me.task].processed_at = stamp + 1]
  /\ lock' = [lock EXCEPT ![me.proc] = None]
  /\ workers' = [workers EXCEPT ![w] = Resume([me EXCEPT !.retries = 0, !.success = FALSE])]
  /\ UNCHANGED <<offQueue, procVars, docVars, queue, tasks, clients, now, before>>


\* One attempt starts: the request is fetched again inside the app context,
\* then generate_pdf_for_service_request gets the document (step 1) and
\* finds its placeholders (step 2).
BeginAttempt(w) ==
  LET me == workers[w] IN
  /\ me.pc = "attempt"
  /\ workers' = [workers EXCEPT ![w].attempts = @ + 1, ![w].pc = "forward",
                                ![w].ph = (template = Orig),
                                ![w].invoked = <<"generate_pdf_for_service_request">>,
                                ![w].tier1 = "running", ![w].cause = "none"]
  /\ UNCHANGED <<offQueue, procVars, docVars, queue, tasks, lock, objs, clients, now, stamp, before>>

\* The attempt fails before the template is touched: the row of the request
\* is gone (raise Exception("... not found")), or the generator fails and
\* returns None, which the worker raises as "PDF generation returned None".
AttemptFails(w) ==
  LET me == [workers[w] EXCEPT !.attempts = @ + 1] IN
  /\ me.pc = "attempt"
  /\ \/ workers' = [workers EXCEPT ![w] =
                      Raise([me EXCEPT !.invoked = <<>>, !.tier1 = "none", !.cause = "not_found"],
                            "not_found")]
     \/ workers' = [workers EXCEPT ![w] =
                      Raise(ReturnedNone(Caught([me EXCEPT !.invoked = <<"generate_pdf_for_service_request">>],
                                                "get_document")),
                            "returned_none")]
  /\ UNCHANGED <<offQueue, procVars, docVars, queue, tasks, lock, objs, clients, now, stamp, before>>

\* step 4: batchUpdate of the replacement requests, when there are any
ForwardOk(w) ==
  LET me == workers[w] IN
  /\ me.pc = "forward"
  /\ me.ph
  /\ template' = Forward(template, objs[me.task].code)
  /\ workers' = [workers EXCEPT ![w].pc = "export", ![w].saved = TRUE]
  /\ UNCHANGED <<offQueue, procVars, queue, tasks, lock, objs, clients, now, stamp, before>>

\* no replacement request: step 4 is skipped
ForwardNone(w) ==
  LET me == workers[w] IN
  /\ me.pc = "forward"
  /\ ~me.ph
  /\ workers' = [workers EXCEPT ![w].pc = "export"]
  /\ UNCHANGED <<offQueue, procVars, docVars, queue, tasks, lock, objs, clients, now, stamp, before>>

\* the batchUpdate raises: return False with nothing to restore
ForwardFail(w) ==
  LET me == workers[w] IN
  /\ me.pc = "forward"
  /\ me.ph
  /\ workers' = [workers EXCEPT ![w] =
                   Raise(ReturnedNone(Caught(me, "batchUpdate")), "returned_none")]
  /\ UNCHANGED <<offQueue, procVars, docVars, queue, tasks, lock, objs, clients, now, stamp, before>>

\* steps 5 and 6: export_as_pdf and the write of the file
ExportOk(w) ==
  LET me == workers[w] IN
  /\ me.pc = "export"
  /\ workers' = [workers EXCEPT ![w] =
                   IF me.saved THEN [me EXCEPT !.pc = "restore"]
                   ELSE ReturnedFilename([me EXCEPT !.pc = "set_completed"])]
  /\ UNCHANGED <<offQueue, procVars, docVars, queue, tasks, lock, objs, clients, now, stamp, before>>

\* the export or the write raises
ExportFail(w) ==
  LET me == workers[w] IN
  /\ me.pc = "export"
  /\ workers' = [workers EXCEPT ![w] =
                   IF me.saved THEN Caught([me EXCEPT !.pc = "err_restore"], "export_as_pdf")
                   ELSE Raise(ReturnedNone(Caught(me, "export_as_pdf")), "returned_none")]
  /\ UNCHANGED <<offQueue, procVars, docVars, queue, tasks, lock, objs, clients, now, stamp, before>>

\* step 7: batchUpdate of the restoration requests
RestoreOk(w) ==
  LET me == workers[w] IN
  /\ me.pc = "restore"
  /\ template' = Restore(template, objs[me.task].code)
  /\ workers' = [workers EXCEPT ![w] =
                   ReturnedFilename([me EXCEPT !.pc = "set_completed", !.saved = FALSE])]
  /\ UNCHANGED <<offQueue, procVars, queue, tasks, lock, objs, clients, now, stamp, before>>

\* the restoring batchUpdate raises
RestoreFail(w) ==
  LET me == workers[w] IN
  /\ me.pc = "restore"
  /\ workers' = [workers EXCEPT ![w] = Caught([me EXCEPT !.pc = "err_restore"], "restore")]
  /\ UNCHANGED <<offQueue, procVars, docVars, queue, tasks, lock, objs, clients, now, stamp, before>>

\* the except branch of generate_pdf_with_replacements: one more try to
\* restore, then return False
ErrRestoreOk(w) ==
  LET me == workers[w] IN
  /\ me.pc = "err_restore"
  /\ template' = Restore(template, objs[me.task].code)
  /\ workers' = [workers EXCEPT ![w] = Raise(ReturnedNone(me), "returned_none")]
  /\ UNCHANGED <<offQueue, procVars, queue, tasks, lock, objs, clients, now, stamp, before>>

\* that batchUpdate raises too: the template stays as it is
ErrRestoreFail(w) ==
  LET me == workers[w] IN
  /\ me.pc = "err_restore"
  /\ workers' = [workers EXCEPT ![w] = Raise(ReturnedNone(me), "returned_none")]
  /\ UNCHANGED <<offQueue, procVars, docVars, queue, tasks, lock, objs, clients, now, stamp, before>>

\* with self._lock: task.status = COMPLETED ...
SetCompleted(w) ==
  LET me == workers[w] IN
  /\ me.pc = "set_completed"
  /\ lock[me.proc] = None
  /\ lock' = [lock EXCEPT ![me.proc] = w]
  /\ objs' = [objs EXCEPT ![me.task].status = COMPLETED]
  /\ workers' = [workers EXCEPT ![w].pc = "set_result"]
  /\ UNCHANGED <<offQueue, procVars, docVars, queue, tasks, clients, now, stamp, before>>

\* ... task.result = pdf_filename; success = True
SetResult(w) ==
  LET me == workers[w] IN
  /\ me.pc = "set_result"
  /\ objs' = [objs EXCEPT ![me.task].result = PdfFilename(objs[me.task].code)]
  /\ lock' = [lock EXCEPT ![me.proc] = None]
  /\ workers' = [workers EXCEPT ![w].pc = "callback", ![w].success = TRUE]
  /\ UNCHANGED <<offQueue, procVars, docVars, queue, tasks, clients, now, stamp, before>>

\* if task.callback: task.callback(task), after the success; then the loop
\* is left
Callback(w) ==
  LET me == workers[w] IN
  /\ me.pc = "callback"
  /\ objs' = InvokeCallback(me.task)
  /\ workers' = [workers EXCEPT ![w] = AfterCallback(me, me.task)]
  /\ UNCHANGED <<offQueue, procVars, docVars, queue, tasks, lock, clients, now, stamp, before>>

\* with self._lock: task.status = FAILED ...
SetFailedMut(w) ==
  LET me == workers[w] IN
  /\ me.pc = "set_failed"
  /\ lock[me.proc] = None
  /\ lock' = [lock EXCEPT ![me.proc] = w]
  /\ workers' = [workers EXCEPT ![w].pc = "set_error"]
  /\ UNCHANGED <<offQueue, procVars, docVars, queue, tasks, objs, clients, now, stamp, before>>
SetFailed(w) ==
  LET me == workers[w] IN
  /\ me.pc = "set_failed"
  /\ lock[me.proc] = None
  /\ lock' = [lock EXCEPT ![me.proc] = w]
  /\ objs' = [objs EXCEPT ![me.task].status = FAILED]
  /\ workers' = [workers EXCEPT ![w].pc = "set_error"]
  /\ UNCHANGED <<offQueue, procVars, docVars, queue, tasks, clients, now, stamp, before>>

\* ... task.error = str(e)
SetError(w) ==
  LET me == workers[w] IN
  /\ me.pc = "set_error"
  /\ objs' = [objs EXCEPT ![me.task].error = me.err]
  /\ lock' = [lock EXCEPT ![me.proc] = None]
  /\ workers' = [workers EXCEPT ![w].pc = "fail_callback"]
  /\ UNCHANGED <<offQueue, procVars, docVars, queue, tasks, clients, now, stamp, before>>

\* if task.callback: task.callback(task), after the failure; then the loop
\* is left
FailCallbackMut(w) ==
  LET me == workers[w] IN
  /\ me.pc = "fail_callback"
  /\ workers' = [workers EXCEPT ![w] = Resume(me)]
  /\ UNCHANGED <<offQueue, procVars, docVars, queue, tasks, lock, objs, clients, now, stamp, before>>
FailCallback(w) ==
  LET me == workers[w] IN
  /\ me.pc = "fail_callback"
  /\ objs' = InvokeCallback(me.task)
  /\ workers' = [workers EXCEPT ![w] = AfterCallback(me, me.task)]
  /\ UNCHANGED <<offQueue, procVars, docVars, queue, tasks, lock, clients, now, stamp, before>>

\* the steps of a worker whose calls all succeed
WorkerOkStep(w) ==
  \/ Dequeue(w) \/ MarkProcessing(w) \/ StampProcessed(w) \/ BeginAttempt(w)
  \/ ForwardOk(w) \/ ForwardNone(w) \/ ExportOk(w) \/ RestoreOk(w)
  \/ SetCompleted(w) \/ SetResult(w) \/ Callback(w)

\* the steps a failing call leads to
WorkerFailStep(w) ==
  \/ AttemptFails(w) \/ ForwardFail(w) \/ ExportFail(w) \/ RestoreFail(w)
  \/ ErrRestoreOk(w) \/ ErrRestoreFail(w)
  \/ SetFailed(w) \/ SetError(w) \/ FailCallback(w)

\* --------------------------------------------------- request threads
\* tasks whose add_task has returned
Returned == {a \in 1 .. Len(objs) : \A c \in Clients : clients[c].obj # a}

\* the ids callers hold: those add_task has returned
KnownIds == {objs[a].task_id : a \in Returned}

\* Service requests are interchangeable, so a new one takes the smallest
\* tracking code not in use.
NextCodes == {k \in Codes : \A j \in 1 .. k - 1 : \E a \in 1 .. Len(objs) : objs[a].code = j}

\* where a module-level function goes on once it has its processor
Entry(op) == IF op = "add" THEN "new_task" ELSE "poll"

\* A module-level function is called and get_queue_processor reads the
\* global: if _queue_processor is None ... return _queue_processor
CallApi(c, op, id) ==
  /\ clients[c].pc = "idle"
  /\ clients' = [clients EXCEPT
                   ![c].op = op, ![c].id = id, ![c].proc = queue_processor,
                   ![c].pc = IF queue_processor = None THEN "gqp_new" ELSE Entry(op)]
  /\ UNCHANGED <<offQueue, procVars, docVars, queue, tasks, lock, objs, workers, now, stamp, before>>

\* add_pdf_task(service_request, callback)
BeginAdd(c) ==
  /\ clients[c].role \in {"submitter", "approver"}
  /\ Len(objs) + Cardinality({d \in Clients : clients[d].pc = "new_task"}) < MaxTasks
  /\ CallApi(c, "add", UnknownId)

\* add_task: the id and the PDFTask
NewTask(c, code, cb, rs) ==
  LET me == clients[c]
      n == Len(objs) + 1 IN
  /\ me.pc = "new_task"
  /\ objs' = Append(objs, NewPDFTask(TaskId(code, now), code, cb, rs, me.proc))
  /\ before' = before \cup {<<a, n>> : a \in {b \in Returned : objs[b].proc = me.proc}}
  /\ clients' = [clients EXCEPT ![c].obj = n, ![c].pc = "index"]
  /\ UNCHANGED <<offQueue, procVars, docVars, queue, tasks, lock, workers, now, stamp>>

\* with self._lock: self.tasks[task_id] = task
IndexTask(c) ==
  LET me == clients[c] IN
  /\ me.pc = "index"
  /\ lock[me.proc] = None
  /\ tasks' = [tasks EXCEPT ![me.proc] = (objs[me.obj].task_id :> me.obj) @@ @]
  /\ clients' = [clients EXCEPT ![c].pc = "put"]
  /\ UNCHANGED <<offQueue, procVars, docVars, queue, lock, objs, workers, now, stamp, before>>

\* self.queue.put(task); return task_id
PutTask(c) ==
  LET me == clients[c] IN
  /\ me.pc = "put"
  /\ queue' = [queue EXCEPT ![me.proc] = QueuePut(@, me.obj)]
  /\ clients' = [clients EXCEPT ![c] = IdleClient(me.role)]
  /\ UNCHANGED <<offQueue, procVars, docVars, tasks, lock, objs, workers, now, stamp, before>>

\* the wall clock reaches the next second
Tick ==
  /\ now < MaxTime
  /\ now' = now + 1
  /\ UNCHANGED <<offQueue, procVars, docVars, queue, tasks, lock, objs, workers, clients, stamp, before>>

\* The callers of add_pdf_task: review_request passes no callback
\* (an "approver"), request_service passes on_pdf_complete; a "submitter"
\* is either.
Callbacks(role) == IF role = "approver" THEN {FALSE} ELSE BOOLEAN

\* a callback returns or raises; no callback, nothing to raise
Raising(cb) == IF cb THEN BOOLEAN ELSE {FALSE}

SubmitterStep(c) ==
  \/ BeginAdd(c)
  \/ \E code \in NextCodes, cb \in Callbacks(clients[c].role) :
       \E rs \in Raising(cb) : NewTask(c, code, cb, rs)
  \/ IndexTask(c)
  \/ PutTask(c)

\* wait_for_task(task_id, timeout); start_time = time.time()
BeginWait(c, id) ==
  /\ clients[c].role = "reader"
  /\ CallApi(c, "wait", id)

\* while time.time() - start_time < timeout: task = get_task_status(task_id)
\* (with self._lock: return self.tasks.get(task_id)); past the timeout,
\* return None
Poll(c) ==
  LET me == clients[c] IN
  /\ me.pc = "poll"
  /\ IF me.polls < MaxPolls
       THEN /\ lock[me.proc] = None
            /\ clients' = [clients EXCEPT ![c].ref = Lookup(me.proc, me.id),
                                          ![c].snap = Given(Lookup(me.proc, me.id)),
                                          ![c].pc = "check"]
       ELSE clients' = [clients EXCEPT ![c].ref = None, ![c].pc = "hold"]
  /\ UNCHANGED <<offQueue, procVars, docVars, queue, tasks, lock, objs, workers, now, stamp, before>>

\* if task and task.status in [COMPLETED, FAILED]: return task;
\* else time.sleep(0.5)
Check(c) ==
  LET me == clients[c] IN
  /\ me.pc = "check"
  /\ IF me.ref # None /\ IsDone(objs[me.ref].status)
       THEN clients' = [clients EXCEPT ![c].snap = Fields(me.ref), ![c].pc = "hold"]
       ELSE clients' = [clients EXCEPT ![c].ref = None, ![c].snap = NoFields,
                                       ![c].polls = @ + 1, ![c].pc = "poll"]
  /\ UNCHANGED <<offQueue, procVars, docVars, queue, tasks, lock, objs, workers, now, stamp, before>>

\* the caller reads task.status of the task it was given
ReadStatus(c) ==
  LET me == clients[c] IN
  /\ me.pc = "hold"
  /\ me.ref # None
  /\ clients' = [clients EXCEPT ![c].seenStatus = objs[me.ref].status,
                                ![c].pc = "read"]
  /\ UNCHANGED <<offQueue, procVars, docVars, queue, tasks, lock, objs, workers, now, stamp, before>>

\* ... and then task.result if it saw COMPLETED, task.error otherwise
ReadValue(c) ==
  LET me == clients[c] IN
  /\ me.pc = "read"
  /\ IF me.seenStatus = COMPLETED
       THEN clients' = [clients EXCEPT ![c].seenResult = objs[me.ref].result,
                                       ![c].pc = "seen"]
       ELSE clients' = [clients EXCEPT ![c].seenError = objs[me.ref].error,
                                       ![c].pc = "seen"]
  /\ UNCHANGED <<offQueue, procVars, docVars, queue, tasks, lock, objs, workers, now, stamp, before>>

\* the caller is done with what it was given
Release(c) ==
  /\ clients[c].pc \in {"hold", "seen"}
  /\ clients' = [clients EXCEPT ![c] = IdleClient(clients[c].role)]
  /\ UNCHANGED <<offQueue, procVars, docVars, queue, tasks, lock, objs, workers, now, stamp, before>>

ReaderStep(c) ==
  \/ \E id \in KnownIds \cup {UnknownId} : BeginWait(c, id)
  \/ Poll(c)
  \/ Check(c)
  \/ ReadStatus(c)
  \/ ReadValue(c)
  \/ Release(c)

\* ------------------------------------- the first get_queue_processor
\* _queue_processor = PDFQueueProcessor()
NewProcessor(c) ==
  /\ clients[c].pc = "gqp_new"
  /\ made' = made + 1
  /\ queue_processor' = made + 1
  /\ clients' = [clients EXCEPT ![c].pc = "gqp_start"]
  /\ UNCHANGED <<offQueue, is_running, docVars, queue, tasks, lock, objs, workers, now, stamp, before>>

\* _queue_processor.start(): if self.is_running: return
StartCheck(c) ==
  /\ clients[c].pc = "gqp_start"
  /\ clients' = [clients EXCEPT ![c].proc = queue_processor,
                   ![c].pc = IF is_running[queue_processor] THEN "gqp_ret" ELSE "gqp_run"]
  /\ UNCHANGED <<offQueue, procVars, docVars, queue, tasks, lock, objs, workers, now, stamp, before>>

\* self.is_running = True; self.worker_thread = Thread(...); .start()
StartThread(c) ==
  LET me == clients[c]
      w == 1 + Cardinality({v \in Workers : workers[v].proc # None}) IN
  /\ me.pc = "gqp_run"
  /\ is_running' = [is_running EXCEPT ![me.proc] = TRUE]
  /\ workers' = [workers EXCEPT ![w] = [IdleWorker EXCEPT !.proc = me.proc, !.pc = "get"]]
  /\ clients' = [clients EXCEPT ![c].pc = "gqp_ret"]
  /\ UNCHANGED <<offQueue, queue_processor, made, docVars, queue, tasks, lock, objs, now, stamp, before>>

\* return _queue_processor
ReturnProcessor(c) ==
  /\ clients[c].pc = "gqp_ret"
  /\ clients' = [clients EXCEPT ![c].proc = queue_processor,
                                ![c].pc = Entry(clients[c].op)]
  /\ UNCHANGED <<offQueue, procVars, docVars, queue, tasks, lock, objs, workers, now, stamp, before>>

FirstCallStep(c) ==
  \/ NewProcessor(c)
  \/ StartCheck(c)
  \/ StartThread(c)
  \/ ReturnProcessor(c)

\* One submitting thread, the others poll and read.
InitReaders ==
  /\ InitCommon
  /\ InitStarted
  /\ clients = [c \in Clients |-> IdleClient(IF c = 1 THEN "submitter" ELSE "reader")]

\* The module as imported: no processor yet; every thread approves a
\* request, all within one second of the wall clock, and no call to the
\* database or to Google fails.
InitFirstCall ==
  /\ InitCommon
  /\ queue_processor = None
  /\ made = 0
  /\ is_running = [p \in Procs |-> FALSE]
  /\ workers = [w \in Workers |-> IdleWorker]
  /\ clients = [c \in Clients |-> IdleClient("approver")]

Next ==
  \/ \E w \in Workers : WorkerOkStep(w) \/ WorkerFailStep(w)
  \/ \E c \in Clients : SubmitterStep(c)
  \/ Tick

NextReaders ==
  \/ Next
  \/ \E c \in Clients : ReaderStep(c)

NextFirstCall ==
  \/ \E w \in Workers : WorkerOkStep(w)
  \/ \E c \in Clients : SubmitterStep(c)
  \/ \E c \in Clients : FirstCallStep(c)

Spec == Init /\ [][Next]_vars

SpecReaders == InitReaders /\ [][NextReaders]_vars

SpecFirstCall == InitFirstCall /\ [][NextFirstCall]_vars

\* ---------------------------------------------------- start and stop
\* A processor that was constructed and not started: is_running False, no
\* worker thread.
InitStartStop ==
  /\ InitCommon
  /\ queue_processor = 1
  /\ made = 1
  /\ is_running = [p \in Procs |-> FALSE]
  /\ workers = [w \in Workers |-> IdleWorker]
  /\ clients = [c \in Clients |-> IdleClient("approver")]

\* a thread calls start() on the processor, while a worker thread can
\* still be created
CallStart(c) ==
  /\ clients[c].pc = "idle"
  /\ Cardinality({v \in Workers : workers[v].proc # None})
       + Cardinality({d \in Clients : clients[d].pc \in {"gqp_start", "gqp_run"}})
       < NumClients
  /\ clients' = [clients EXCEPT ![c].op = "start", ![c].pc = "gqp_start"]
  /\ UNCHANGED <<offQueue, procVars, docVars, queue, tasks, lock, objs, workers, now, stamp, before>>

\* start() returns
StartReturn(c) ==
  /\ clients[c].pc = "gqp_ret"
  /\ clients' = [clients EXCEPT ![c] = IdleClient(clients[c].role)]
  /\ UNCHANGED <<offQueue, procVars, docVars, queue, tasks, lock, objs, workers, now, stamp, before>>

\* stop(): self.is_running = False; the join returns when the worker has
\* ended or after its timeout, whichever comes first
Stop(c) ==
  /\ clients[c].pc = "idle"
  /\ is_running' = [is_running EXCEPT ![queue_processor] = FALSE]
  /\ UNCHANGED <<offQueue, queue_processor, made, docVars, queue, tasks, lock, objs, workers, clients, now, stamp, before>>

\* while self.is_running, read False at the head of the loop: the worker
\* thread ends
WorkerExit(w) ==
  LET me == workers[w] IN
  /\ me.pc = "get"
  /\ ~is_running[me.proc]
  /\ workers' = [workers EXCEPT ![w].pc = "exited"]
  /\ UNCHANGED <<offQueue, procVars, docVars, queue, tasks, lock, objs, clients, now, stamp, before>>

NextStartStop ==
  \/ \E w \in Workers : WorkerOkStep(w)
  \/ \E w \in Workers : WorkerExit(w)
  \/ \E c \in Clients : SubmitterStep(c)
  \/ \E c \in Clients : CallStart(c) \/ StartCheck(c) \/ StartThread(c) \/ StartReturn(c)
  \/ \E c \in Clients : Stop(c)

SpecStartStop == InitStartStop /\ [][NextStartStop]_vars

\* -------------------------------------------------- a fair scheduler
\* The started processor, its submitters, and threads that may call stop().
NextStop ==
  \/ \E w \in Workers : WorkerOkStep(w) \/ WorkerFailStep(w)
  \/ \E w \in Workers : WorkerExit(w)
  \/ \E c \in Clients : SubmitterStep(c)
  \/ \E c \in Clients : Stop(c)

\* the worker thread is scheduled, and every call it makes returns or raises
WorkerFair ==
  \A w \in Workers : WF_vars(WorkerOkStep(w) \/ WorkerFailStep(w) \/ WorkerExit(w))

SpecStop == Init /\ [][NextStop]_vars /\ WorkerFair

\* the same scheduler when nothing calls stop()
SpecFair == Init /\ [][Next]_vars /\ WorkerFair

\* ------------------------------------------------- review_request
\* self.queue.put(task); return task_id, in add_pdf_task(service_request)
\* called by review_request, which goes on to wait_for_task(task_id, 30)
ApproverPut(c) ==
  LET me == clients[c] IN
  /\ me.pc = "put"
  /\ queue' = [queue EXCEPT ![me.proc] = QueuePut(@, me.obj)]
  /\ clients' = [clients EXCEPT ![c] =
                   [IdleClient(me.role) EXCEPT !.op = "wait", !.proc = queue_processor,
                                               !.id = objs[me.obj].task_id,
                                               !.pc = Entry("wait")]]
  /\ UNCHANGED <<offQueue, procVars, docVars, tasks, lock, objs, workers, now, stamp, before>>

\* if task.status == COMPLETED: service_request.pdf_filename = task.result;
\* db.session.commit()
SetPdfFilename(c) ==
  LET me == clients[c] IN
  /\ me.pc = "seen"
  /\ me.seenStatus = COMPLETED
  /\ pdf_filename' = [pdf_filename EXCEPT ![objs[me.ref].code] = me.seenResult]
  /\ clients' = [clients EXCEPT ![c] = IdleClient(me.role)]
  /\ UNCHANGED <<textVars, fontVars, procVars, docVars, queue, tasks, lock, objs, workers, now, stamp, before>>

\* the other branches: the task failed, or wait_for_task returned None
\* after its timeout; db.session.commit() and a message, no pdf_filename
ReviewReturn(c) ==
  LET me == clients[c] IN
  /\ \/ me.pc = "hold" /\ me.ref = None
     \/ me.pc = "seen" /\ me.seenStatus # COMPLETED
  /\ clients' = [clients EXCEPT ![c] = IdleClient(me.role)]
  /\ UNCHANGED <<offQueue, procVars, docVars, queue, tasks, lock, objs, workers, now, stamp, before>>

\* A started processor; one administrator approves the requests, one
\* after the other, in review_request.
InitReview ==
  /\ InitCommon
  /\ InitStarted
  /\ clients = [c \in Clients |-> IdleClient(IF c = 1 THEN "approver" ELSE "reader")]

ApproverStep(c) ==
  \/ BeginAdd(c)
  \/ \E code \in NextCodes : NewTask(c, code, FALSE, FALSE)
  \/ IndexTask(c)
  \/ ApproverPut(c)
  \/ Poll(c)
  \/ Check(c)
  \/ ReadStatus(c)
  \/ ReadValue(c)
  \/ SetPdfFilename(c)
  \/ ReviewReturn(c)

NextReview ==
  \/ \E w \in Workers : WorkerOkStep(w) \/ WorkerFailStep(w)
  \/ \E c \in Clients : ApproverStep(c)

\* the worker and the request threads are scheduled
SpecReview ==
  /\ InitReview
  /\ [][NextReview]_vars
  /\ WorkerFair
  /\ \A c \in Clients : WF_vars(ApproverStep(c))

\* ------------------------------------------------ replacement engines
\* Text is a sequence of characters; a paragraph is a sequence of runs.
Names == {<<"a">>, <<"b">>}

\* placeholder_pattern = f'{{{{{placeholder}}}}}'
Token(name) == <<"{", "{">> \o name \o <<"}", "}">>

\* what one formatting run may hold
RunTexts == {<<"{", "{">>, <<"}", "}">>, <<"a">>, <<"b">>, <<"x">>, Token(<<"a">>)}

\* what a form value may be
ValueTexts == {<<>>, <<"x">>, Token(<<"a">>)}

Paragraphs == UNION {[1 .. k -> RunTexts] : k \in 0 .. MaxRuns}

\* dicts over Names, as their items in insertion order
Dicts ==
  {<<>>} \cup {<<<<n, v>>>> : n \in Names, v \in ValueTexts}
         \cup {d \in {<<<<n, v>>, <<m, u>>>> : n \in Names, m \in Names,
                                               v \in ValueTexts, u \in ValueTexts} :
                 d[1][1] # d[2][1]}

Keys(items) == {items[i][1] : i \in DOMAIN items}

\* ''.join(run.text for run in runs), and paragraph.text
RECURSIVE Join(_)
Join(runs) == IF runs = <<>> THEN <<>> ELSE Head(runs) \o Join(Tail(runs))

StartsWith(s, pat) == Len(pat) <= Len(s) /\ SubSeq(s, 1, Len(pat)) = pat

\* pat in s
Contains(s, pat) == \E i \in 0 .. Len(s) - Len(pat) : SubSeq(s, i + 1, i + Len(pat)) = pat

\* s.replace(pat, val) for a pattern that is not empty: every occurrence,
\* left to right, none overlapping
RECURSIVE StrReplaceMut(_, _, _)
StrReplaceMut(s, pat, val) ==
  IF Len(s) < Len(pat) THEN s
  ELSE IF StartsWith(s, pat)
    THEN val \o SubSeq(s, Len(pat) + 1, Len(s))
    ELSE <<Head(s)>> \o StrReplaceMut(Tail(s), pat, val)
RECURSIVE StrReplace(_, _, _)
StrReplace(s, pat, val) ==
  IF Len(s) < Len(pat) THEN s
  ELSE IF StartsWith(s, pat)
    THEN val \o StrReplace(SubSeq(s, Len(pat) + 1, Len(s)), pat, val)
    ELSE <<Head(s)>> \o StrReplace(Tail(s), pat, val)

\* the number of occurrences, counted the same way (s.count(pat))
RECURSIVE Count(_, _)
Count(s, pat) ==
  IF Len(s) < Len(pat) THEN 0
  ELSE IF StartsWith(s, pat)
    THEN 1 + Count(SubSeq(s, Len(pat) + 1, Len(s)), pat)
    ELSE Count(Tail(s), pat)

\* for placeholder, value in replacements.items():
\*     full_text = full_text.replace(placeholder_pattern, value)
RECURSIVE SubstituteMut(_, _)
SubstituteMut(text, items) ==
  IF items = <<>> THEN StrReplace(text, Token(<<"b">>), <<>>)
  ELSE SubstituteMut(StrReplace(text, Token(Head(items)[1]), Head(items)[2]), Tail(items))
RECURSIVE Substitute(_, _)
Substitute(text, items) ==
  IF items = <<>> THEN text
  ELSE Substitute(StrReplace(text, Token(Head(items)[1]), Head(items)[2]), Tail(items))

\* _replace_placeholders_in_paragraph: a paragraph with none of the dict's
\* placeholders is left alone; otherwise its runs are replaced by one run
\* holding the substituted text
ReplaceInParagraphMut(runs, items) == <<Substitute(Join(runs), items)>>
ReplaceInParagraph(runs, items) ==
  IF \A i \in DOMAIN items : ~Contains(Join(runs), Token(items[i][1]))
    THEN runs
    ELSE <<Substitute(Join(runs), items)>>

\* the index of the first "}" of s at or after i, or 0
FirstClose(s, i) ==
  IF \E j \in i .. Len(s) : s[j] = "}"
    THEN CHOOSE j \in i .. Len(s) : s[j] = "}" /\ \A k \in i .. j - 1 : s[k] # "}"
    ELSE 0

\* re.findall(r'\{\{([^}]+)\}\}', text): the names, in order of position
RECURSIVE FindAll(_)
FindAll(s) ==
  IF Len(s) < 5 THEN <<>>
  ELSE LET j == FirstClose(s, 3) IN
       IF s[1] = "{" /\ s[2] = "{" /\ j > 3 /\ j < Len(s) /\ s[j + 1] = "}"
         THEN <<SubSeq(s, 3, j - 1)>> \o FindAll(SubSeq(s, j + 2, Len(s)))
         ELSE FindAll(Tail(s))

Range(f) == {f[i] : i \in DOMAIN f}

\* _detect_placeholders_in_docx: found in paragraph.text
DetectPlaceholders(runs) == Range(FindAll(Join(runs)))

\* Where a paragraph of a .docx can be: in the body, in a cell of a table of
\* the body, in a section's header or footer, in a cell of a table nested in
\* a cell, in a section's first-page header.
Places == {"body", "table_cell", "header", "footer", "nested_cell", "first_page_header"}

\* The paragraphs process_docx_template walks: doc.paragraphs, the
\* cell.paragraphs of doc.tables, section.header and section.footer.
Visited == {"body", "table_cell", "header", "footer"}

\* A paragraph of a template and the form's values, before the engine runs.
InitDocx ==
  /\ QueueIdle
  /\ FontIdle
  /\ AppIdle
  /\ place = "none"
  /\ paragraph \in Paragraphs
  /\ replacements \in Dicts
  /\ filled = <<>>
  /\ second = <<>>
  /\ stage = "input"

\* process_docx_template on a document that has the paragraph at place w
ProcessDocx(w) ==
  /\ stage = "input"
  /\ place' = w
  /\ filled' = IF w \in Visited THEN ReplaceInParagraph(paragraph, replacements)
                ELSE paragraph
  /\ stage' = "filled"
  /\ UNCHANGED <<queueVars, appVars, fontVars, paragraph, replacements, second>>

\* process_docx_template on its own output
ProcessAgain ==
  /\ stage = "filled"
  /\ second' = IF place \in Visited THEN ReplaceInParagraph(filled, replacements)
                ELSE filled
  /\ stage' = "again"
  /\ UNCHANGED <<queueVars, appVars, fontVars, place, paragraph, replacements, filled>>

\* the same dict built in the opposite order
Reversed(items) == [i \in DOMAIN items |-> items[Len(items) + 1 - i]]

\* process_docx_template on the same paragraph with the dict's items in the
\* other order
ProcessReordered ==
  /\ stage = "filled"
  /\ second' = IF place \in Visited
                THEN ReplaceInParagraph(paragraph, Reversed(replacements))
                ELSE paragraph
  /\ stage' = "reordered"
  /\ UNCHANGED <<queueVars, appVars, fontVars, place, paragraph, replacements, filled>>

NextDocx ==
  \/ \E w \in Places : ProcessDocx(w)
  \/ ProcessAgain
  \/ ProcessReordered

SpecDocx == InitDocx /\ [][NextDocx]_vars

\* ------------------------------------------- the Google Docs template
\* what one textRun of the template may hold
TextRuns == {<<"{", "{">>, <<"}", "}">>, <<"a">>, <<"x">>, Token(<<"a">>), Token(<<"b">>)}

GdocParagraphs == UNION {[1 .. k -> TextRuns] : k \in 0 .. MaxRuns}

\* replacements[name]
Value(items, n) == items[CHOOSE i \in DOMAIN items : items[i][1] = n][2]

\* _extract_all_text_with_positions and the finditer over each text element,
\* in order of position
RECURSIVE FindInRuns(_)
FindInRuns(runs) ==
  IF runs = <<>> THEN <<>> ELSE FindAll(Head(runs)) \o FindInRuns(Tail(runs))

\* _find_placeholders_with_positions: the names found, sorted by start,
\* last first
FindPlaceholders(runs) == Reversed(FindInRuns(runs))

\* _create_replacement_requests: one replaceAllText <<text, value>> per
\* placeholder found that has a value
ReplacementRequests(phs, items) ==
  LET mapped == SelectSeq(phs, LAMBDA n : n \in Keys(items)) IN
  [i \in DOMAIN mapped |-> <<Token(mapped[i]), Value(items, mapped[i])>>]

\* the requests without those an earlier one repeats
\* (processed_replacements)
RECURSIVE Dedup(_)
Dedup(reqs) ==
  IF reqs = <<>> THEN <<>>
  ELSE LET n == Len(reqs)
           r == Dedup(SubSeq(reqs, 1, n - 1)) IN
       IF \E j \in 1 .. n - 1 : reqs[j] = reqs[n] THEN r ELSE Append(r, reqs[n])

\* _create_restoration_requests: replaceAllText <<value, text>>
RestorationRequests(phs, items) ==
  LET fwd == Dedup(ReplacementRequests(phs, items)) IN
  [i \in DOMAIN fwd |-> <<fwd[i][2], fwd[i][1]>>]

\* documents().batchUpdate: the replaceAllText requests one after the other
RECURSIVE ApplyRequests(_, _)
ApplyRequests(text, reqs) ==
  IF reqs = <<>> THEN text
  ELSE ApplyRequests(StrReplace(text, reqs[1][1], reqs[1][2]), Tail(reqs))

\* the API refuses a replaceAllText whose containsText is empty
Refused(reqs) == \E i \in DOMAIN reqs : reqs[i][1] = <<>>

\* steps 1 to 4 of generate_pdf_with_replacements: the template's text as
\* it is exported
GdocForward(runs, items) ==
  ApplyRequests(Join(runs), ReplacementRequests(FindPlaceholders(runs), items))

\* The template and the values of a request, before the generation.
InitGdocs ==
  /\ QueueIdle
  /\ FontIdle
  /\ AppIdle
  /\ place = "gdoc"
  /\ paragraph \in GdocParagraphs
  /\ replacements \in Dicts
  /\ filled = <<>>
  /\ second = <<>>
  /\ stage = "input"

\* generate_pdf_with_replacements, steps 1 to 6: find the placeholders,
\* apply the replacements, export
ExportGdoc ==
  /\ stage = "input"
  /\ filled' = <<GdocForward(paragraph, replacements)>>
  /\ stage' = "exported"
  /\ UNCHANGED <<queueVars, appVars, fontVars, place, paragraph, replacements, second>>

\* step 7: the restoring batchUpdate and return True; when the API refuses
\* it, the except branch tries the same requests again and returns False
RestoreGdoc ==
  LET reqs == RestorationRequests(FindPlaceholders(paragraph), replacements) IN
  /\ stage = "exported"
  /\ IF Refused(reqs)
       THEN /\ second' = filled
            /\ stage' = "failed"
       ELSE /\ second' = <<ApplyRequests(Join(filled), reqs)>>
            /\ stage' = "restored"
  /\ UNCHANGED <<queueVars, appVars, fontVars, place, paragraph, replacements, filled>>

\* generate_pdf_with_replacements when documents().get raises (step 1):
\* original_state_saved is False, the except branch issues nothing and the
\* call returns False
GetFails ==
  /\ stage = "input"
  /\ second' = paragraph
  /\ stage' = "failed_early"
  /\ UNCHANGED <<queueVars, appVars, fontVars, place, paragraph, replacements, filled>>

\* generate_pdf_with_replacements when export_as_pdf or the write of the
\* file raises (steps 5 and 6).  With replacements applied the except branch
\* sends the restoration requests, which the API applies, refuses or fails
\* on; then the call returns False.
ExportFails ==
  LET phs == FindPlaceholders(paragraph)
      reqs == RestorationRequests(phs, replacements)
      text == GdocForward(paragraph, replacements)
  IN
  /\ stage = "input"
  /\ filled' = <<text>>
  /\ \/ second' = IF ReplacementRequests(phs, replacements) = <<>> \/ Refused(reqs)
                    THEN <<text>>
                    ELSE <<ApplyRequests(text, reqs)>>
     \/ second' = <<text>>
  /\ stage' = "failed"
  /\ UNCHANGED <<queueVars, appVars, fontVars, place, paragraph, replacements>>

\* reverse_replacements = {v: k for k, v in replacements.items()}, whose keys
\* are the values and whose values are the placeholders: a value given twice
\* keeps its first position and its last placeholder
RECURSIVE ReverseReplacements(_)
ReverseReplacements(items) ==
  IF items = <<>> THEN <<>>
  ELSE LET n == Len(items)
           r == ReverseReplacements(SubSeq(items, 1, n - 1))
           v == items[n][2]
           k == Token(items[n][1]) IN
       IF \E j \in DOMAIN r : r[j][1] = v
         THEN [j \in DOMAIN r |-> IF r[j][1] = v THEN <<v, k>> ELSE r[j]]
         ELSE Append(r, <<v, k>>)

\* create_batch_update_request: one replaceAllText per entry, the longest
\* text to find first, entries of one length in the dict's order
RECURSIVE CreateBatchUpdateRequest(_)
CreateBatchUpdateRequest(items) ==
  IF items = <<>> THEN <<>>
  ELSE LET i == CHOOSE i \in DOMAIN items :
                  /\ \A j \in DOMAIN items : Len(items[j][1]) <= Len(items[i][1])
                  /\ \A j \in 1 .. i - 1 : Len(items[j][1]) < Len(items[i][1])
       IN <<items[i]>> \o
          CreateBatchUpdateRequest(SubSeq(items, 1, i - 1) \o SubSeq(items, i + 1, Len(items)))

\* generate_pdf_without_copy when get_document_content raises (step 1): the
\* except branch sends the reverse requests all the same, when the dict is
\* not empty; then the call returns False
NoCopyGetFails ==
  LET reqs == CreateBatchUpdateRequest(ReverseReplacements(replacements)) IN
  /\ stage = "input"
  /\ place' = "gdoc_no_copy"
  /\ second' = IF Refused(reqs) THEN paragraph
                ELSE <<ApplyRequests(Join(paragraph), reqs)>>
  /\ stage' = "failed_early"
  /\ UNCHANGED <<queueVars, appVars, fontVars, paragraph, replacements, filled>>

NextGdocs ==
  \/ ExportGdoc
  \/ RestoreGdoc
  \/ GetFails
  \/ ExportFails
  \/ NoCopyGetFails

SpecGdocs == InitGdocs /\ [][NextGdocs]_vars

\* ---------------------------------------------------------- font manager
\* Font names and file names are strings, written as their characters.
Vazir == <<"V", "a", "z", "i", "r">>
Helvetica == <<"H", "e", "l", "v", "e", "t", "i", "c", "a">>

\* the names static/fonts can hold files under
Files == {<<"V", "a", "z", "i", "r", ".", "t", "t", "f">>,
          <<"V", "a", "z", "i", "r", "-", "B", "o", "l", "d", ".", "t", "t", "f">>,
          <<"A", "r", "i", "a", "l", ".", "o", "t", "f">>,
          <<"A", "r", "i", "a", "l", "-", "B", "o", "l", "d", "-", "I", "t", "a", "l", "i", "c", ".", "o", "t", "f">>}

\* a file is missing, is a font ReportLab's TTFont loads, or is one TTFont
\* raises on
FileStates == {"absent", "good", "bad"}

\* the names get_font_for_pdf is asked for
Requested == {<<>>, Vazir, <<"v", "a", "z", "i", "r", " ", "b", "o", "l", "d">>,
              <<"A", "r", "i", "a", "l">>, <<"T", "a", "h", "o", "m", "a">>}

\* persian_fallbacks, in the order they are tried
persian_fallbacks == <<Vazir, <<"I", "R", "A", "N", "S", "a", "n", "s">>,
                       <<"B", " ", "N", "a", "z", "a", "n", "i", "n">>,
                       <<"B", " ", "M", "i", "t", "r", "a">>>>

\* the style words of _get_font_name_from_file and _normalize_font_name
suffixes == <<<<"r", "e", "g", "u", "l", "a", "r">>,
              <<"b", "o", "l", "d">>,
              <<"i", "t", "a", "l", "i", "c">>,
              <<"l", "i", "g", "h", "t">>,
              <<"m", "e", "d", "i", "u", "m">>,
              <<"h", "e", "a", "v", "y">>,
              <<"b", "l", "a", "c", "k">>,
              <<"t", "h", "i", "n">>>>

\* str.lower()
LowerChar(c) ==
  CASE c = "A" -> "a" [] c = "B" -> "b" [] c = "H" -> "h" [] c = "I" -> "i"
    [] c = "M" -> "m" [] c = "N" -> "n" [] c = "O" -> "o" [] c = "R" -> "r"
    [] c = "S" -> "s" [] c = "T" -> "t" [] c = "V" -> "v" [] OTHER -> c
Lower(s) == [i \in DOMAIN s |-> LowerChar(s[i])]

EndsWith(s, pat) ==
  Len(pat) <= Len(s) /\ SubSeq(s, Len(s) - Len(pat) + 1, Len(s)) = pat

\* filename.lower().endswith(('.ttf', '.otf'))
IsFontFile(filename) ==
  \/ EndsWith(Lower(filename), <<".", "t", "t", "f">>)
  \/ EndsWith(Lower(filename), <<".", "o", "t", "f">>)

\* os.path.splitext(filename)[0]: the name up to its last dot, when
\* something other than dots stands before that dot
SplitExt(filename) ==
  LET dots == {i \in DOMAIN filename : filename[i] = "."} IN
  IF dots = {} THEN filename
  ELSE LET last == CHOOSE i \in dots : \A j \in dots : j <= i IN
       IF \E j \in 1 .. last - 1 : filename[j] # "."
         THEN SubSeq(filename, 1, last - 1)
         ELSE filename

\* _get_font_name_from_file: the extension goes, and so does one trailing
\* "-style" or "_style", whatever its case
GetFontNameFromFile(filename) ==
  LET name == SplitExt(filename)
      tails == {sep \o suffixes[k] : sep \in {<<"-">>, <<"_">>}, k \in DOMAIN suffixes}
      hit == {t \in tails : EndsWith(Lower(name), t)}
  IN IF hit = {} THEN name
     ELSE SubSeq(name, 1, Len(name) - Len(CHOOSE t \in hit : TRUE))

\* for suffix in suffixes: normalized = normalized.replace('-suffix', '')
\*     .replace('_suffix', '').replace(' suffix', '')
RECURSIVE RemoveSuffixes(_, _)
RemoveSuffixes(s, sufs) ==
  IF sufs = <<>> THEN s
  ELSE RemoveSuffixes(
         StrReplace(StrReplace(StrReplace(s, <<"-">> \o Head(sufs), <<>>),
                               <<"_">> \o Head(sufs), <<>>),
                    <<" ">> \o Head(sufs), <<>>),
         Tail(sufs))

\* _normalize_font_name: lower case, style words dropped, then spaces,
\* hyphens and underscores dropped
NormalizeFontName(font_name) ==
  IF font_name = <<>> THEN <<>>
  ELSE SelectSeq(RemoveSuffixes(Lower(font_name), suffixes),
                 LAMBDA c : c \notin {" ", "-", "_"})

\* pdfmetrics.registerFont(TTFont(font_name, font_path)) succeeds for the
\* files TTFont loads
Registers(files, f) == files[f] = "good"

\* _scan_and_register_fonts: every font file of the directory is offered to
\* ReportLab; the names of those it took.  A file it refused is logged and
\* stays in the directory.
ScanAndRegister(files) ==
  {GetFontNameFromFile(f) : f \in {g \in Files : IsFontFile(g) /\ Registers(files, g)}}

\* is_font_available: what it can return.  The registered fonts come first,
\* then the files of the directory; which of several matches is met first
\* is up to the iteration order of the set and of os.listdir.
IsFontAvailable(font_name) ==
  LET normalized_font == NormalizeFontName(font_name)
      regs == {r \in registered_fonts : NormalizeFontName(r) = normalized_font}
      found == {f \in Files :
                  /\ font_files[f] # "absent"
                  /\ IsFontFile(f)
                  /\ NormalizeFontName(GetFontNameFromFile(f)) = normalized_font}
  IN IF font_name = <<>> THEN {}
     ELSE IF regs # {} THEN regs
     ELSE found

\* is_available, matched_font = self.is_font_available(name)
\* if is_available: return self._get_font_name_from_file(matched_font)
Matched(font_name) == {GetFontNameFromFile(m) : m \in IsFontAvailable(font_name)}

\* the first of the fallbacks that is available, or 'Helvetica'
RECURSIVE Fallback(_)
Fallback(names) ==
  IF names = <<>> THEN {Helvetica}
  ELSE IF Matched(Head(names)) # {} THEN Matched(Head(names))
  ELSE Fallback(Tail(names))

\* get_font_for_pdf: what it can return for the requested font
GetFontForPdf(requested_font) ==
  IF Matched(requested_font) # {} THEN Matched(requested_font)
  ELSE Fallback(persian_fallbacks)

\* The module's font_manager = FontManager() over whatever the directory
\* holds when the program starts.
InitFonts ==
  /\ QueueIdle
  /\ TextIdle
  /\ AppIdle
  /\ font_files \in [Files -> FileStates]
  /\ registered_fonts = ScanAndRegister(font_files)
  /\ pdfmetrics = ScanAndRegister(font_files)
  /\ resolved = [called |-> FALSE, requested |-> <<>>, font |-> <<>>]

\* save_uploaded_font with a file TTFont loads: saved and registered
UploadGood(f) ==
  /\ IsFontFile(f)
  /\ font_files' = [font_files EXCEPT ![f] = "good"]
  /\ pdfmetrics' = pdfmetrics \cup {GetFontNameFromFile(f)}
  /\ registered_fonts' = registered_fonts \cup {GetFontNameFromFile(f)}
  /\ UNCHANGED <<queueVars, appVars, textVars, resolved>>

\* save_uploaded_font with a file TTFont raises on: saved over whatever was
\* there, then removed again
UploadBad(f) ==
  /\ IsFontFile(f)
  /\ font_files' = [font_files EXCEPT ![f] = "absent"]
  /\ UNCHANGED <<queueVars, appVars, textVars, registered_fonts, pdfmetrics, resolved>>

\* delete_font of a file that exists: its name leaves registered_fonts, the
\* file is unlinked; ReportLab keeps what it has loaded
DeleteFont(f) ==
  /\ font_files[f] # "absent"
  /\ registered_fonts' = registered_fonts \ {GetFontNameFromFile(f)}
  /\ font_files' = [font_files EXCEPT ![f] = "absent"]
  /\ UNCHANGED <<queueVars, appVars, textVars, pdfmetrics, resolved>>

\* a caller asks get_font_for_pdf for a font
Resolve(name) ==
  /\ \E r \in GetFontForPdf(name) :
       resolved' = [called |-> TRUE, requested |-> name, font |-> r]
  /\ UNCHANGED <<queueVars, appVars, textVars, font_files, registered_fonts, pdfmetrics>>

NextFonts ==
  \/ \E f \in Files : UploadGood(f)
  \/ \E f \in Files : UploadBad(f)
  \/ \E f \in Files : DeleteFont(f)
  \/ \E name \in Requested : Resolve(name)

SpecFonts == InitFonts /\ [][NextFonts]_vars

\* ------------------------------------------------------------- claims
Tasks == 1 .. Len(objs)
Terminal == {COMPLETED, FAILED}
Started == {w \in Workers : workers[w].proc # None}

\* the worker that has task t in hand, if any
Handlers(t) == {w \in Started : workers[w].task = t}

\* C1: single-flight.  However add_task calls and the worker's steps
\* interleave, at most one task of a processor has status PROCESSING.
C1_SingleFlight ==
  \A p \in Procs :
    Cardinality({t \in Tasks : objs[t].proc = p /\ objs[t].status = PROCESSING}) <= 1

\* C1 witness: the worker has finished one task and is processing the next.
C1_Witness ==
  \E a, b \in Tasks : objs[a].status \in Terminal /\ objs[b].status = PROCESSING

\* C2: FIFO.  If add_task of a returned before add_task of b was called,
\* the worker marks a PROCESSING, and stamps its processed_at, strictly
\* before it does so for b, also while a is retried.
C2_Fifo ==
  \A pair \in before :
    LET a == objs[pair[1]]
        b == objs[pair[2]] IN
    /\ b.status # PENDING => a.status # PENDING
    /\ b.processed_at # None =>
         a.processed_at # None /\ a.processed_at < b.processed_at

\* C2 witness: b was marked after a, submitted before it, had used up all
\* its retries.
C2_Witness ==
  \E pair \in before :
    objs[pair[1]].status = FAILED /\ objs[pair[2]].processed_at # None

\* C3: every add_task yields an id no other task has, so no entry of the
\* index is overwritten and each returned id resolves to its own task.
C3_UniqueIds ==
  /\ \A a, b \in Tasks :
       a # b /\ objs[a].proc = objs[b].proc => objs[a].task_id # objs[b].task_id
  /\ \A a \in Returned : Lookup(objs[a].proc, objs[a].task_id) = a

\* C4: retry bound.  No task is attempted more than max_retries + 1 times,
\* a task is marked FAILED only after exactly max_retries + 1 attempts, no
\* attempt follows the failure, and the worker leaves no task short of a
\* terminal status.
C4_RetryBound ==
  /\ \A w \in Started :
       /\ workers[w].attempts <= max_retries + 1
       /\ workers[w].pc \in {"set_failed", "set_error", "fail_callback"} =>
            workers[w].attempts = max_retries + 1
       /\ workers[w].pc \in {"attempt", "forward", "export", "restore", "err_restore"} =>
            objs[workers[w].task].status = PROCESSING
  /\ \A t \in Tasks :
       /\ objs[t].status = PROCESSING => Handlers(t) # {}
       /\ objs[t].status = FAILED /\ Handlers(t) # {} =>
            \A w \in Handlers(t) : workers[w].attempts = max_retries + 1

\* C4 witness: a task whose attempts all failed has just been marked FAILED.
C4_Witness ==
  \E w \in Started :
    /\ workers[w].pc = "fail_callback"
    /\ workers[w].attempts = max_retries + 1
    /\ objs[workers[w].task].status = FAILED

Allowed(s, s2) ==
  \/ s = s2
  \/ <<s, s2>> \in {<<PENDING, PROCESSING>>, <<PROCESSING, COMPLETED>>,
                    <<PROCESSING, PENDING>>, <<PROCESSING, FAILED>>}

\* C5: a task's status changes only along Pending -> Processing,
\* Processing -> Completed, Processing -> Pending, Processing -> Failed, and
\* once the status stored under a task id is Completed or Failed it never
\* changes again.
C5_StatusPath ==
  [][ /\ \A t \in Tasks : Allowed(objs[t].status, objs'[t].status)
      /\ \A p \in Procs : \A id \in DOMAIN tasks[p] :
           objs[tasks[p][id]].status \in Terminal =>
             objs'[tasks'[p][id]].status = objs[tasks[p][id]].status ]_vars

\* C6: the callback of a task is invoked exactly once, and only after the
\* task is Completed or Failed: never twice, never while the task is not
\* terminal, and not zero times once the worker is done with the task.
C6_CallbackOnce ==
  \A t \in Tasks :
    /\ objs[t].calls <= 1
    /\ objs[t].calls = 1 => objs[t].callback /\ objs[t].status \in Terminal
    /\ objs[t].callback /\ objs[t].status \in Terminal /\ Handlers(t) = {} =>
         objs[t].calls = 1

\* C6 witness: a task with a callback has used up its retries, the worker
\* has left it, and the callback has run.
C6_Witness ==
  \E t \in Tasks :
    /\ objs[t].callback
    /\ objs[t].status = FAILED
    /\ Handlers(t) = {}
    /\ objs[t].calls = 1

\* the threads that hold a task get_task_status or wait_for_task gave them
Holding == {c \in Clients : clients[c].pc \in {"check", "hold", "read", "seen"}
                            /\ clients[c].ref # None}

\* C7: what get_task_status and wait_for_task return is a point-in-time
\* copy: its status, result, error and processed_at stay as they were when
\* it was returned, whatever the worker does to the task afterwards.
C7_Snapshot ==
  \A c \in Holding : Fields(clients[c].ref) = clients[c].snap

\* C8: a reader never sees a task in the middle of a mutation: having seen
\* status COMPLETED it reads the generated filename as the result, having
\* seen FAILED it reads the error.
C8_NoTornRead ==
  \A c \in Clients :
    clients[c].pc = "seen" =>
      /\ clients[c].seenStatus = COMPLETED => clients[c].seenResult # None
      /\ clients[c].seenStatus = FAILED => clients[c].seenError # "none"

\* C9: wait_for_task returns a task only when that task, the one stored
\* under the id asked for, is COMPLETED or FAILED; it returns None only
\* after every poll the timeout allows has found no terminal task; and it
\* never polls more often than that.
C9_WaitForTask ==
  \A c \in Clients :
    /\ clients[c].polls <= MaxPolls
    /\ clients[c].pc = "hold" =>
         IF clients[c].ref # None
           THEN /\ objs[clients[c].ref].status \in Terminal
                /\ objs[clients[c].ref].task_id = clients[c].id
           ELSE clients[c].polls = MaxPolls

\* C9 witness: after at least one unsuccessful poll, wait_for_task has
\* returned the finished task.
C9_Witness ==
  \E c \in Clients :
    /\ clients[c].pc = "hold"
    /\ clients[c].ref # None
    /\ clients[c].polls >= 1

\* the errors a failed generation attempt leaves in the task
GenErrors == {"not_found", "returned_none"}

\* C11: an exception raised by a task's callback is absorbed.  Once such a
\* callback has been called the worker has left the task for good (no
\* further attempt, no second call), the task keeps the terminal status,
\* result and error the generation gave it, and the worker is alive.
C11_CallbackAbsorbed ==
  \A t \in Tasks :
    objs[t].callback /\ objs[t].raises /\ objs[t].calls >= 1 =>
      /\ objs[t].calls = 1
      /\ Handlers(t) = {}
      /\ \A w \in Started : workers[w].pc # "none" /\ is_running[workers[w].proc]
      /\ \/ /\ objs[t].status = COMPLETED
            /\ objs[t].result = PdfFilename(objs[t].code)
            /\ objs[t].error = "none"
         \/ /\ objs[t].status = FAILED
            /\ objs[t].result = None
            /\ objs[t].error \in GenErrors

\* C11 witness: the callback of a failed task raised, and the worker has
\* gone on to the next task.
C11_Witness ==
  \E t, u \in Tasks :
    /\ objs[t].raises /\ objs[t].calls = 1 /\ objs[t].status = FAILED
    /\ objs[u].status \in {PROCESSING, COMPLETED}

\* C12: no task-level failure stops the worker.  Whatever was raised while
\* a task was processed, and also after a task ended FAILED, the worker
\* thread is alive with is_running set, and when it holds no task it is
\* back at queue.get, where the next queued task can be taken.
C12_WorkerSurvives ==
  \A w \in Started :
    /\ workers[w].pc # "none"
    /\ is_running[workers[w].proc]
    /\ workers[w].task = None <=> workers[w].pc = "get"
    /\ workers[w].pc = "get" /\ queue[workers[w].proc] # <<>> => ENABLED Dequeue(w)

\* C12 witness: after one task ended FAILED the worker is at the export of
\* the next one, whose first attempt had failed too.
C12_Witness ==
  \E w \in Started, t \in Tasks :
    /\ objs[t].status = FAILED
    /\ workers[w].task # None /\ workers[w].task # t
    /\ workers[w].pc = "export"
    /\ workers[w].retries >= 1

\* a worker between its forward batchUpdate and its restoring batchUpdate
InEdit(w) ==
  workers[w].saved /\ workers[w].pc \in {"export", "restore", "err_restore"}

\* a batchUpdate or an export is executed for the task of worker w
TemplateOp(w) == ForwardOk(w) \/ ExportOk(w) \/ RestoreOk(w) \/ ErrRestoreOk(w)

\* C10: the queue serializes all access to the template: while a task is
\* between its forward and its restoring batchUpdate, no batchUpdate or
\* export of another task is executed on the template.
C10_Serialized ==
  [][ \A w \in Workers : TemplateOp(w) =>
        \A v \in Workers \ {w} : ~InEdit(v) ]_vars

\* C13: after process_docx_template no {{name}} whose name is a key of the
\* replacements is left in the paragraph.
C13_NoMappedTokenLeft ==
  stage = "filled" =>
    \A n \in Keys(replacements) : ~Contains(Join(filled), Token(n))

\* C14: a {{name}} whose name is not a key of the replacements is left
\* verbatim: each of its occurrences in the input is in the output, whatever
\* was substituted for the other tokens.
C14_UnmappedVerbatim ==
  stage = "filled" =>
    \A n \in Names \ Keys(replacements) :
      Count(Join(filled), Token(n)) >= Count(Join(paragraph), Token(n))

\* C14 witness: a mapped token was substituted next to an unmapped one that
\* is still there.
C14_Witness ==
  /\ stage = "filled"
  /\ Keys(replacements) = {<<"a">>}
  /\ Contains(Join(paragraph), Token(<<"a">>))
  /\ Contains(Join(paragraph), Token(<<"b">>))
  /\ Contains(Join(filled), Token(<<"b">>))
  /\ Join(filled) # Join(paragraph)

\* no value holds a {{...}}
PlainValues(items) == \A i \in DOMAIN items : FindAll(items[i][2]) = <<>>

\* C15: idempotence.  With values that contain no {{...}}, the engine run
\* on its own output with the same replacements changes nothing.
C15_Idempotent ==
  stage = "again" /\ PlainValues(replacements) => Join(second) = Join(filled)

Braces == {"{", "}"}

\* the text is plain characters and {{name}} tokens with brace-free names
RECURSIVE WellFormed(_)
WellFormed(s) ==
  IF s = <<>> THEN TRUE
  ELSE IF Head(s) \notin Braces THEN WellFormed(Tail(s))
  ELSE LET j == FirstClose(s, 3) IN
       /\ Len(s) >= 5
       /\ s[1] = "{" /\ s[2] = "{"
       /\ j > 3 /\ j < Len(s)
       /\ s[j + 1] = "}"
       /\ \A k \in 3 .. j - 1 : s[k] # "{"
       /\ WellFormed(SubSeq(s, j + 2, Len(s)))

\* no value holds a brace
BraceFree(items) ==
  \A i \in DOMAIN items : \A k \in DOMAIN items[i][2] : items[i][2][k] \notin Braces

\* C15 as amended: for a paragraph made of plain text and {{name}} tokens,
\* and values without braces, the engine run on its own output leaves the
\* runs as they are.
C15_IdempotentOnTokens ==
  stage = "again" /\ WellFormed(Join(paragraph)) /\ BraceFree(replacements) =>
    second = filled

\* C15 witness: a token split over runs was substituted, another token had
\* no value, and the second application has run.
C15_Witness ==
  /\ stage = "again"
  /\ WellFormed(Join(paragraph))
  /\ BraceFree(replacements)
  /\ Len(paragraph) > 1
  /\ Keys(replacements) = {<<"b">>}
  /\ Contains(Join(paragraph), Token(<<"a">>))
  /\ ~Contains(Join(paragraph), Token(<<"b">>)) = FALSE
  /\ Len(filled) = 1

\* C16: the substituted text does not depend on the order in which the
\* entries of the replacements are applied.
C16_OrderIrrelevant ==
  stage = "reordered" => Join(second) = Join(filled)

\* C17: a token split across adjacent runs of a paragraph is found by the
\* scanner and substituted like a token held by one run: for a paragraph of
\* plain text and {{name}} tokens, however cut into runs, the scan and the
\* exported text are those of the same text in a single run.
C17_SplitToken ==
  stage = "exported" /\ WellFormed(Join(paragraph)) =>
    /\ Range(FindPlaceholders(paragraph)) = Range(FindPlaceholders(<<Join(paragraph)>>))
    /\ Join(filled) = GdocForward(<<Join(paragraph)>>, replacements)

\* C20: round trip.  After a successful generate_pdf_with_replacements the
\* template's text is what it was before the call.
C20_RoundTrip ==
  stage = "restored" => Join(second) = Join(paragraph)

\* what ReportLab can draw with: a font registered with pdfmetrics, or its
\* built-in Helvetica
Loadable(font) == font = Helvetica \/ font \in pdfmetrics

\* C18: get_font_for_pdf returns a registered font or 'Helvetica', whatever
\* it is asked for (the empty string and unknown names included), and never
\* the name of a font file that failed to register.
C18_FontLoadable == resolved.called => Loadable(resolved.font)

\* C19: within one generation attempt, once the first renderer
\* (generate_pdf_for_service_request) has failed the next one
\* (generate_pdf_fallback) is invoked for the same request before the
\* attempt is over; once the first renderer has succeeded no other renderer
\* is invoked.
C19_Fallthrough ==
  \A w \in Workers :
    /\ workers[w].tier1 = "raised" =>
         "generate_pdf_fallback" \in Range(workers[w].invoked)
    /\ workers[w].tier1 = "ok" =>
         workers[w].invoked = <<"generate_pdf_for_service_request">>

\* the worker is past a successful generation of its task
Succeeded(w) == workers[w].pc \in {"set_completed", "set_result", "callback"}

\* C21: when attempt k is the first attempt of a task that succeeds, every
\* earlier attempt has failed and k <= max_retries + 1; the task becomes
\* COMPLETED at that attempt with the generated filename as its result; no
\* further attempt is made; and a COMPLETED task stays COMPLETED with that
\* result, so it is never marked FAILED.
C21_FirstSuccess ==
  /\ [](\A w \in Started :
          Succeeded(w) =>
            /\ workers[w].attempts = workers[w].retries + 1
            /\ workers[w].attempts <= max_retries + 1
            /\ workers[w].pc = "callback" =>
                 /\ objs[workers[w].task].status = COMPLETED
                 /\ objs[workers[w].task].result = PdfFilename(objs[workers[w].task].code))
  /\ [](\A t \in Tasks :
          objs[t].status = COMPLETED =>
            \A w \in Handlers(t) : workers[w].pc \in {"set_result", "callback"})
  /\ [][\A t \in Tasks :
          objs[t].status = COMPLETED =>
            /\ objs'[t].status = COMPLETED
            /\ objs[t].result # None => objs'[t].result = objs[t].result]_vars

\* C21 witness: the second attempt of a task was the first to succeed, and
\* the task is COMPLETED with its filename.
C21_Witness ==
  \E w \in Started :
    /\ workers[w].pc = "callback"
    /\ workers[w].attempts = 2
    /\ objs[workers[w].task].status = COMPLETED
    /\ objs[workers[w].task].result = PdfFilename(objs[workers[w].task].code)

\* C22: when a task is marked FAILED its error is the error that made its
\* last attempt fail, as that attempt raised it, and its result is unset.
C22_LastErrorKept ==
  \A w \in Started :
    workers[w].pc = "fail_callback" =>
      /\ objs[workers[w].task].status = FAILED
      /\ objs[workers[w].task].error = workers[w].cause
      /\ objs[workers[w].task].result = None

\* C23: when generate_pdf_with_replacements or generate_pdf_without_copy
\* returns False the template's text is what it was before the call; in
\* particular a call that failed before it applied any replacement has
\* changed nothing.
C23_FailureRestores ==
  stage \in {"failed", "failed_early"} => Join(second) = Join(paragraph)

\* C24: a paragraph of the body, a table cell, a header or a footer whose
\* concatenated text holds no {{key}} for any key of the replacements keeps
\* its run list as it was: as many runs, each with the text it had.  The
\* runs are not touched, and so keep their formatting.
C24_UntouchedRuns ==
  /\ stage = "filled"
  /\ place \in Visited
  /\ \A n \in Keys(replacements) : ~Contains(Join(paragraph), Token(n))
  => filled = paragraph

\* C24 witness: a paragraph of several runs, with a token that has no
\* mapping, went through the engine with a dict that is not empty.
C24_Witness ==
  /\ stage = "filled"
  /\ place \in Visited
  /\ Len(paragraph) >= 2
  /\ replacements # <<>>
  /\ Contains(Join(paragraph), Token(<<"a">>))
  /\ \A n \in Keys(replacements) : ~Contains(Join(paragraph), Token(n))
  /\ filled = paragraph

\* the fonts there are: those registered, and those of the files in the
\* directory
Fonts ==
  registered_fonts \cup
  {GetFontNameFromFile(f) : f \in {g \in Files : font_files[g] # "absent" /\ IsFontFile(g)}}

\* the fonts whose normalized name is that of the name asked for
Matching(name) ==
  IF name = <<>> THEN {}
  ELSE {x \in Fonts : NormalizeFontName(x) = NormalizeFontName(name)}

\* C25: get_font_for_pdf returns a font that matches the requested name
\* after normalization when there is one; otherwise a font that matches the
\* first name of Vazir, IRANSans, B Nazanin, B Mitra that has one;
\* otherwise 'Helvetica'.  It always returns a name.
C25_ResolveOrder ==
  resolved.called =>
    LET avail == {i \in DOMAIN persian_fallbacks : Matching(persian_fallbacks[i]) # {}} IN
    /\ resolved.font # <<>>
    /\ IF Matching(resolved.requested) # {}
         THEN resolved.font \in Matching(resolved.requested)
       ELSE IF avail # {}
         THEN resolved.font \in
                Matching(persian_fallbacks[CHOOSE i \in avail : \A j \in avail : i <= j])
       ELSE resolved.font = Helvetica

\* the worker threads of processor p that are alive while p is running:
\* those that go on taking tasks from its queue
Draining(p) ==
  {w \in Workers : workers[w].proc = p /\ workers[w].pc # "exited" /\ is_running[p]}

\* C26: however start() and stop() calls on a processor interleave, at most
\* one worker thread is draining its queue.
C26_OneWorker == \A p \in Procs : Cardinality(Draining(p)) <= 1

\* the threads that hold a processor get_queue_processor gave them
Holders == {c \in Clients : clients[c].proc # None /\ clients[c].pc \notin {"gqp_new", "gqp_start", "gqp_run", "gqp_ret"}}

\* C27: every caller of get_queue_processor receives the same instance,
\* threads that make the first call concurrently included: one processor is
\* ever constructed, and one worker is behind it.
C27_Singleton ==
  /\ made <= 1
  /\ \A c, d \in Holders : clients[c].proc = clients[d].proc
  /\ Cardinality(Started) <= 1

\* C28: liveness.  Under a fair scheduler every task whose add_pdf_task has
\* returned eventually reaches COMPLETED or FAILED.
C28_EventuallyDone ==
  \A a \in 1 .. MaxTasks :
    (a \in Returned) ~> (a \in Tasks /\ objs[a].status \in Terminal)

\* C29: a save_uploaded_font that fails because the font cannot be
\* registered leaves the registered font names and the files of the font
\* directory as they were, also when the directory already held a file of
\* that name.
C29_FailedUploadNoChange ==
  [][\A f \in Files :
       UploadBad(f) =>
         /\ registered_fonts' = registered_fonts
         /\ font_files' = font_files]_vars

\* C30: once the PDF task of a manually approved request is COMPLETED, the
\* request's pdf_filename is eventually the task's result, whether or not
\* wait_for_task had timed out before the task finished.
C30_FilenameSet ==
  \A a \in 1 .. MaxTasks :
    (IF a \in Tasks THEN objs[a].status = COMPLETED /\ objs[a].result # None ELSE FALSE)
      ~> (IF a \in Tasks THEN pdf_filename[objs[a].code] = objs[a].result ELSE FALSE)

====
